---- MODULE Spec2Model ----
(***************************************************************************)
(* A model of backend/app.py of the photo frame generator: the colour      *)
(* normaliser convert_to_srgb, the slot fitter fit_image_to_slot, the      *)
(* /generate compose loop and the /save_locally handler.                   *)
(*                                                                         *)
(* Python computes the fit sizes in IEEE-754 binary64 (true division of    *)
(* ints, int * float, int / float, int() truncation).  The first part of   *)
(* the module is that arithmetic, on 53-bit significands held as four      *)
(* limbs of 14 bits, so that rounding is the machine's and not the reals'. *)
(***************************************************************************)
EXTENDS Integers, Sequences, FiniteSets, TLC

(***************************************************************************)
(* Multi-limb naturals: a sequence of limbs, least significant first.      *)
(***************************************************************************)
Min(a, b) == IF a < b THEN a ELSE b
Max(a, b) == IF a > b THEN a ELSE b

LimbBits == 14
Base == 2 ^ LimbBits
MantLimbs == 4
\* a normalised significand m has 2^52 <= m < 2^53: its top limb holds bits 42..55
TopLo == 2 ^ 10
TopHi == 2 ^ 11

RECURSIVE BigOfInt(_, _)
BigOfInt(n, k) ==
    IF k = 0 THEN << >> ELSE <<n % Base>> \o BigOfInt(n \div Base, k - 1)

RECURSIVE BigGeqFrom(_, _, _)
BigGeqFrom(x, y, i) ==
    IF i = 0 THEN TRUE
    ELSE IF x[i] # y[i] THEN x[i] > y[i]
    ELSE BigGeqFrom(x, y, i - 1)

BigGeq(x, y) == BigGeqFrom(x, y, Len(x))

RECURSIVE BigSubFrom(_, _, _, _)
BigSubFrom(x, y, i, borrow) ==
    IF i > Len(x) THEN << >>
    ELSE LET d == x[i] - y[i] - borrow
         IN  <<IF d < 0 THEN d + Base ELSE d>>
             \o BigSubFrom(x, y, i + 1, IF d < 0 THEN 1 ELSE 0)

BigSub(x, y) == BigSubFrom(x, y, 1, 0)

\* x * c + carry, one limb longer than x
RECURSIVE BigScaleFrom(_, _, _, _)
BigScaleFrom(x, c, i, carry) ==
    IF i > Len(x) THEN <<carry>>
    ELSE LET p == x[i] * c + carry
         IN  <<p % Base>> \o BigScaleFrom(x, c, i + 1, p \div Base)

\* 2x + bit, kept at the length of x
BigDblAdd(x, bit) == SubSeq(BigScaleFrom(x, 2, 1, bit), 1, Len(x))

RECURSIVE BigAddFrom(_, _, _, _)
BigAddFrom(x, y, i, carry) ==
    IF i > Len(x) THEN << >>
    ELSE LET s == x[i] + y[i] + carry
         IN  <<s % Base>> \o BigAddFrom(x, y, i + 1, s \div Base)

BigAdd(x, y) == BigAddFrom(x, y, 1, 0)

BigInc(x) == BigAdd(x, BigOfInt(1, Len(x)))

RECURSIVE BigHalfFrom(_, _, _)
BigHalfFrom(x, i, carry) ==
    IF i = 0 THEN << >>
    ELSE LET v == carry * Base + x[i]
         IN  BigHalfFrom(x, i - 1, v % 2) \o <<v \div 2>>

BigHalf(x) == BigHalfFrom(x, Len(x), 0)

BigIsZero(x) == \A i \in 1..Len(x) : x[i] = 0

Zeros(k) == [i \in 1..k |-> 0]

\* sum over the limbs y[j] of (x * y[j]) moved up j-1 limbs
RECURSIVE BigMulFrom(_, _, _)
BigMulFrom(x, y, j) ==
    IF j > Len(y) THEN Zeros(Len(x) + Len(y))
    ELSE BigAdd(Zeros(j - 1) \o BigScaleFrom(x, y[j], 1, 0) \o Zeros(Len(y) - j),
                BigMulFrom(x, y, j + 1))

BigMul(x, y) == BigMulFrom(x, y, 1)

\* the value of a number known to be below 2^31
BigToInt(x) == x[1] + Base * x[2] + Base * Base * x[3]

(***************************************************************************)
(* binary64 values that the fitter meets: positive and normal,             *)
(* [m |-> significand, e |-> exponent], value m * 2^e.                     *)
(***************************************************************************)
\* x shifted right s bits; g the last bit shifted out, st whether an earlier one was set
ShiftRight(x, s) ==
    LET a       == s \div LimbBits
        b       == s % LimbBits
        limb(i) == IF i > Len(x) THEN 0 ELSE x[i]
        gl      == (s - 1) \div LimbBits + 1
        gb      == (s - 1) % LimbBits
    IN  [q  |-> [i \in 1..Len(x) |->
                   (limb(i + a) \div 2 ^ b) + (limb(i + a + 1) % 2 ^ b) * 2 ^ (LimbBits - b)],
         g  |-> IF s = 0 THEN 0 ELSE (limb(gl) \div 2 ^ gb) % 2,
         st |-> s > 0 /\ (\/ \E i \in 1..(gl - 1) : limb(i) # 0
                          \/ limb(gl) % 2 ^ gb # 0)]

\* x shifted left s bits, kept at the length of x (the caller leaves the room)
ShiftLeft(x, s) ==
    LET a       == s \div LimbBits
        b       == s % LimbBits
        limb(i) == IF i < 1 THEN 0 ELSE x[i]
    IN  [i \in 1..Len(x) |->
           (limb(i - a) % 2 ^ (LimbBits - b)) * 2 ^ b + limb(i - a - 1) \div 2 ^ (LimbBits - b)]

\* the number of bits of an int 0 < n < 2^30
BitLen(n) == CHOOSE k \in 1..30 : 2 ^ (k - 1) <= n /\ (k = 30 \/ n < 2 ^ k)

\* a carry out of bit 52 renormalises
Renormalise(r, e) ==
    IF r[MantLimbs] >= TopHi THEN [m |-> BigHalf(r), e |-> e + 1] ELSE [m |-> r, e |-> e]

\* round to nearest, ties to even
RoundNearestEven(q, g, st, e) ==
    Renormalise(IF g = 1 /\ (st \/ q[1] % 2 = 1) THEN BigInc(q) ELSE q, e)

\* sh: a shifted significand with its guard and sticky bits; st: more sticky bits
RoundShifted(sh, st, e) ==
    RoundNearestEven(SubSeq(sh.q, 1, MantLimbs), sh.g, sh.st \/ st, e)

FloatOfBits(n, k) == [m |-> ShiftLeft(BigOfInt(n, MantLimbs), 53 - k), e |-> k - 53]

\* float(n) for an int 0 < n < 2^30: exact
FloatOfInt(n) == FloatOfBits(n, BitLen(n))

\* the digit estimate from the two top limbs: at most 2 too large when d[n] >= Base/2
QHat(r, d) == Min((r[Len(d)] * Base + r[Len(d) - 1]) \div d[Len(d)], Base - 1)

\* lower the estimate q (c = q * d) until c <= rext
RECURSIVE DivPick(_, _, _, _)
DivPick(rext, dext, q, c) ==
    IF BigGeq(rext, c)
    THEN [q |-> q, r |-> SubSeq(BigSub(rext, c), 1, Len(rext) - 1)]
    ELSE DivPick(rext, dext, q - 1, BigSub(c, dext))

DivTry(r, d, q) == DivPick(<<0>> \o r, d \o <<0>>, q, BigScaleFrom(d, q, 1, 0))

\* one digit of the long division by d (top limb >= Base/2) of r * Base, r < d
DivDigit(r, d) == DivTry(r, d, QHat(r, d))

\* k digits of r / d; q is least significant first
RECURSIVE DivDigits(_, _, _, _)
RECURSIVE DivNext(_, _, _, _)
DivDigits(r, d, k, acc) ==
    IF k = 0 THEN [q |-> acc, r |-> r] ELSE DivNext(DivDigit(r, d), d, k, acc)

DivNext(one, d, k, acc) == DivDigits(one.r, d, k - 1, <<one.q>> \o acc)

FDivCut(dv, s, e) == RoundShifted(ShiftRight(dv.q, s), ~BigIsZero(dv.r), e + s - 67)

\* the quotient has 68 bits when its top limb reaches bit 11, 67 otherwise
FDivRound(dv, e) == FDivCut(dv, IF dv.q[5] >= TopHi THEN 15 ELSE 14, e)

\* x / y, correctly rounded: 70 quotient bits of x.m / (8 * y.m), cut to 53
FDiv(x, y) == FDivRound(DivDigits(x.m, ShiftLeft(y.m, 3), 5, << >>), x.e - y.e)

FMulCut(p, s, e) == RoundShifted(ShiftRight(p, s), FALSE, e + s)

\* the product has 106 bits when bit 105 (bit 7 of limb 8) is set, 105 otherwise
FMulRound(p, e) == FMulCut(p, IF p[2 * MantLimbs] >= 2 ^ 7 THEN 53 ELSE 52, e)

\* x * y, correctly rounded
FMul(x, y) == FMulRound(BigMul(x.m, y.m), x.e + y.e)

FGt(x, y) ==
    \/ x.e > y.e
    \/ x.e = y.e /\ x.m # y.m /\ BigGeq(x.m, y.m)

\* Python's max(a, b): b only when b > a
FMax(a, b) == IF FGt(b, a) THEN b ELSE a

\* int(x) for 0 < x < 2^30: truncation
FTrunc(x) ==
    IF x.e >= 0 THEN BigToInt(x.m)
    ELSE IF -x.e >= 53 THEN 0
    ELSE BigToInt(ShiftRight(x.m, -x.e).q)

(***************************************************************************)
(* State.  Each handler keeps to its own variable; a specification starts  *)
(* the handler it is about and leaves the others idle.                     *)
(*   fit    one call of fit_image_to_slot, step by step                    *)
(*   norm   one call of convert_to_srgb                                    *)
(*   gen    one /generate request                                          *)
(*   sav    the /save_locally requests in flight, by request id            *)
(*   clock  the wall clock, in ticks of 1/SubSecond s                      *)
(*   fs     the generated_photos directory: path -> file                   *)
(***************************************************************************)
VARIABLES fit, norm, gen, sav, clock, fs

vars == <<fit, norm, gen, sav, clock, fs>>

Idle == [pc |-> "idle"]

(***************************************************************************)
(* SLOTS: (x, y, w, h) of the four slots of the template.                  *)
(***************************************************************************)
SLOTS == << <<35, 35, 530, 355>>, <<35, 429, 530, 355>>,
            <<35, 821, 530, 355>>, <<35, 1208, 530, 355>> >>

TargetDpi == 300

(***************************************************************************)
(* fit_image_to_slot                                                       *)
(***************************************************************************)
\* Image.resize: the size must be positive
ResizeOk(w, h) == w > 0 /\ h > 0

\* lines 86-90
UpscaleBy(w, h, scale_factor) ==
    IF FGt(scale_factor, FloatOfInt(1))
    THEN <<FTrunc(FMul(FloatOfInt(w), scale_factor)),
           FTrunc(FMul(FloatOfInt(h), scale_factor))>>
    ELSE <<w, h>>

\* lines 84-90: the size after the upscale step
UpscaleSize(w, h, slot_w, slot_h, upscale_if_small) ==
    IF upscale_if_small /\ (w < slot_w \/ h < slot_h)
    THEN UpscaleBy(w, h, FMax(FDiv(FloatOfInt(slot_w), FloatOfInt(w)),
                              FDiv(FloatOfInt(slot_h), FloatOfInt(h))))
    ELSE <<w, h>>

\* lines 96-101
FitSizeFor(img_ratio, slot_ratio, slot_w, slot_h) ==
    IF FGt(img_ratio, slot_ratio)
    THEN <<FTrunc(FMul(FloatOfInt(slot_h), img_ratio)), slot_h>>
    ELSE <<slot_w, FTrunc(FDiv(FloatOfInt(slot_w), img_ratio))>>

\* lines 93-101: (new_width, new_height)
FitSize(w, h, slot_w, slot_h) ==
    FitSizeFor(FDiv(FloatOfInt(w), FloatOfInt(h)),
               FDiv(FloatOfInt(slot_w), FloatOfInt(slot_h)), slot_w, slot_h)

\* lines 104-108: the size after the staged downsample
StagedSize(w, h, new_width, new_height) ==
    IF w > new_width * 2 \/ h > new_height * 2
    THEN <<Min(w, new_width * 2), Min(h, new_height * 2)>>
    ELSE <<w, h>>

\* a crop box that takes the whole resized raster
CropBoxWhole(new_width, new_height, slot_w, slot_h) == <<0, 0, new_width, new_height>>

\* lines 125-128: (left, top, right, bottom)
CropBox(new_width, new_height, slot_w, slot_h) ==
    LET left == (new_width - slot_w) \div 2
        top  == (new_height - slot_h) \div 2
    IN  <<left, top, left + slot_w, top + slot_h>>

\* Image.crop clips the box to the raster instead of padding it
CropSizeClipped(box, w, h) ==
    <<Min(box[3], w) - Max(box[1], 0), Min(box[4], h) - Max(box[2], 0)>>

\* Image.crop: the result has the size of the box; what lies outside the raster is padding
CropSize(box, w, h) == <<box[3] - box[1], box[4] - box[2]>>

BoxInside(box, w, h) == box[1] >= 0 /\ box[2] >= 0 /\ box[3] <= w /\ box[4] <= h

\* lines 132-133: the dpi the result carries
StampDpi(dpi, target_dpi) == IF dpi = 0 \/ dpi # target_dpi THEN target_dpi ELSE dpi

FitReturn(up, new, st, box, dpi, target_dpi) ==
    IF ResizeOk(up[1], up[2]) /\ ResizeOk(st[1], st[2]) /\ ResizeOk(new[1], new[2])
    THEN [ok |-> TRUE, size |-> CropSize(box, new[1], new[2]),
          dpi |-> StampDpi(dpi, target_dpi), box |-> box, resized |-> new]
    ELSE [ok |-> FALSE]

FitFromRatio(up, new, dpi, slot_w, slot_h, target_dpi) ==
    FitReturn(up, new, StagedSize(up[1], up[2], new[1], new[2]),
              CropBox(new[1], new[2], slot_w, slot_h), dpi, target_dpi)

FitFromUpscale(up, dpi, slot_w, slot_h, target_dpi) ==
    FitFromRatio(up, FitSize(up[1], up[2], slot_w, slot_h), dpi, slot_w, slot_h, target_dpi)

\* the whole call, for the callers: the size, dpi, crop box and resized size of the result
fit_image_to_slot(w, h, dpi, slot_w, slot_h, sharpen, upscale_if_small, target_dpi) ==
    FitFromUpscale(UpscaleSize(w, h, slot_w, slot_h, upscale_if_small),
                   dpi, slot_w, slot_h, target_dpi)

\* the inputs of the fitter's own specification
MaxSrc == 9
FitSlots == {<<SLOTS[1][3], SLOTS[1][4]>>, <<9, 7>>, <<7, 9>>, <<3, 2>>}

InitFit ==
    /\ fit \in [pc : {"upscale"}, w : 1..MaxSrc, h : 1..MaxSrc, dpi : {0, 72},
                slot : FitSlots, sharpen : BOOLEAN, upscale_if_small : BOOLEAN,
                new : {<<0, 0>>}, box : {<<0, 0, 0, 0>>}, padded : {FALSE}]
    /\ norm = Idle /\ gen = Idle /\ sav = << >> /\ clock = 0 /\ fs = << >>

FitIdle == UNCHANGED <<norm, gen, sav, clock, fs>>

\* img = img.resize(size): refused when the size is not positive
Resized(f, pc, size) ==
    IF ResizeOk(size[1], size[2])
    THEN [f EXCEPT !.pc = pc, !.w = size[1], !.h = size[2]]
    ELSE [f EXCEPT !.pc = "error"]

\* img = img.crop(box)
Cropped(f, box) ==
    [f EXCEPT !.pc = "dpi", !.box = box,
              !.w = CropSize(box, f.w, f.h)[1], !.h = CropSize(box, f.w, f.h)[2],
              !.padded = ~BoxInside(box, f.w, f.h)]

\* lines 84-90
FitUpscale ==
    /\ fit.pc = "upscale"
    /\ fit' = Resized(fit, "ratio", UpscaleSize(fit.w, fit.h, fit.slot[1], fit.slot[2],
                                                fit.upscale_if_small))
    /\ FitIdle

\* lines 93-101
FitRatio ==
    /\ fit.pc = "ratio"
    /\ fit' = [fit EXCEPT !.pc = "staged",
                          !.new = FitSize(fit.w, fit.h, fit.slot[1], fit.slot[2])]
    /\ FitIdle

\* lines 104-108
FitStaged ==
    /\ fit.pc = "staged"
    /\ fit' = Resized(fit, "resize", StagedSize(fit.w, fit.h, fit.new[1], fit.new[2]))
    /\ FitIdle

\* line 111
FitResize ==
    /\ fit.pc = "resize"
    /\ fit' = Resized(fit, "sharpen", fit.new)
    /\ FitIdle

\* lines 114-122: the filters keep the size and the info
FitSharpen ==
    /\ fit.pc = "sharpen"
    /\ fit' = [fit EXCEPT !.pc = "crop"]
    /\ FitIdle

\* lines 125-129
FitCrop ==
    /\ fit.pc = "crop"
    /\ fit' = Cropped(fit, CropBox(fit.new[1], fit.new[2], fit.slot[1], fit.slot[2]))
    /\ FitIdle

\* lines 132-135
FitStamp ==
    /\ fit.pc = "dpi"
    /\ fit' = [fit EXCEPT !.pc = "done", !.dpi = StampDpi(fit.dpi, TargetDpi)]
    /\ FitIdle

NextFit ==
    \/ FitUpscale \/ FitRatio \/ FitStaged \/ FitResize
    \/ FitSharpen \/ FitCrop \/ FitStamp

SpecFit == InitFit /\ [][NextFit]_vars

\* C1: whatever the source size, the slot size and the flags, fit_image_to_slot returns
\* (no resize is refused) and the raster it returns has exactly the slot's size.
C1_FitSizeExact ==
    /\ fit.pc # "error"
    /\ fit.pc \in {"dpi", "done"} => fit.w = fit.slot[1] /\ fit.h = fit.slot[2]

\* a call for the 530 x 355 slot, with upscaling and sharpening asked for, that returned
C1_Witness ==
    /\ fit.pc = "done" /\ fit.sharpen /\ fit.upscale_if_small
    /\ fit.slot = <<530, 355>> /\ fit.w = 530 /\ fit.h = 355

\* C2: once computed, (new_width, new_height) covers the slot, and the crop box lies
\* inside the resized raster: nothing is padded.
C2_FitCoversSlot ==
    /\ fit.pc \in {"staged", "resize", "sharpen", "crop", "dpi", "done"}
          => fit.new[1] >= fit.slot[1] /\ fit.new[2] >= fit.slot[2]
    /\ fit.pc \in {"dpi", "done"} => ~fit.padded

(***************************************************************************)
(* convert_to_srgb.  A decoded raster is                                   *)
(*   mode     "RGB", "RGBA", "L", "LA", "P", "CMYK"                        *)
(*   profile  "none": no 'icc_profile' in info; "good"/"bad": one is       *)
(*            there, and ImageCms.profileToProfile succeeds / raises       *)
(*   trns     info['transparency']: "none", "color" (one transparent       *)
(*            colour or palette index), "table" (a palette alpha table)    *)
(*   alpha    the alpha channel: "none", "opaque" (255 everywhere), "mixed"*)
(*   dpi      info['dpi'], 0 when absent                                   *)
(***************************************************************************)
Modes == {"RGB", "RGBA", "L", "LA", "P", "CMYK"}

\* what Image.open can return
Decodable(r) ==
    /\ r.alpha = "none" <=> r.mode \notin {"RGBA", "LA"}
    /\ r.trns = "color" => r.mode \in {"RGB", "L", "P"}
    /\ r.trns = "table" => r.mode = "P"

\* img.convert('RGB'): the alpha channel goes; info is copied, but a palette's alpha
\* table cannot be carried to RGB and is dropped
ConvertRGB(img) ==
    [img EXCEPT !.mode = "RGB", !.alpha = "none",
                !.trns = IF img.mode = "P" /\ img.trns = "table" THEN "none" ELSE img.trns]

\* img.convert('RGBA') of an RGB or RGBA raster: an RGB raster gets alpha 255, except
\* that its transparent colour, if it declares one, becomes alpha 0
ConvertRGBA(img) ==
    IF img.mode = "RGBA" THEN img
    ELSE [img EXCEPT !.mode = "RGBA",
                     !.alpha = IF img.trns = "color" THEN "mixed" ELSE "opaque",
                     !.trns = "none"]

\* line 45
TargetMode(original_mode, img) ==
    IF original_mode = "RGBA" \/ img.trns # "none" THEN "RGBA" ELSE "RGB"

\* lines 48-55: a new raster in outputMode; its info holds the sRGB profile only
ProfileToProfile(img, outputMode) ==
    [img EXCEPT !.mode = outputMode,
                !.alpha = IF outputMode = "RGB" THEN "none"
                          ELSE IF img.alpha = "none" THEN "opaque" ELSE img.alpha,
                !.profile = "srgb", !.trns = "none", !.dpi = 0]

\* lines 31-33
NormaliseMode(img) == IF img.mode \notin {"RGB", "RGBA"} THEN ConvertRGB(img) ELSE img

\* lines 36-62, img already through lines 31-33
NormaliseColour(original_mode, img) ==
    IF img.profile # "none"
    THEN IF img.profile = "good"
         THEN ProfileToProfile(img, TargetMode(original_mode, img))
         ELSE ConvertRGBA(img)                 \* except Exception: line 59
    ELSE ConvertRGBA(img)

convert_to_srgb(img) == NormaliseColour(img.mode, NormaliseMode(img))

NormInputs ==
    {r \in [mode : Modes, profile : {"none", "good", "bad"}, trns : {"none", "color", "table"},
            alpha : {"none", "opaque", "mixed"}, dpi : {0, 72}] : Decodable(r)}

InitNorm ==
    /\ norm \in [pc : {"mode"}, original : NormInputs, img : NormInputs]
    /\ norm.img = norm.original
    /\ fit = Idle /\ gen = Idle /\ sav = << >> /\ clock = 0 /\ fs = << >>

NormIdle == UNCHANGED <<fit, gen, sav, clock, fs>>

\* lines 28-33
NormMode ==
    /\ norm.pc = "mode"
    /\ norm' = [norm EXCEPT !.pc = "profile", !.img = NormaliseMode(norm.img)]
    /\ NormIdle

\* lines 36-56: the transform succeeds
NormTransform ==
    /\ norm.pc = "profile" /\ norm.img.profile = "good"
    /\ norm' = [norm EXCEPT !.pc = "done",
                            !.img = ProfileToProfile(norm.img,
                                        TargetMode(norm.original.mode, norm.img))]
    /\ NormIdle

\* lines 57-59: the transform raises and the handler converts instead
NormFallback ==
    /\ norm.pc = "profile" /\ norm.img.profile = "bad"
    /\ norm' = [norm EXCEPT !.pc = "done", !.img = ConvertRGBA(norm.img)]
    /\ NormIdle

\* lines 60-62
NormPlain ==
    /\ norm.pc = "profile" /\ norm.img.profile = "none"
    /\ norm' = [norm EXCEPT !.pc = "done", !.img = ConvertRGBA(norm.img)]
    /\ NormIdle

NextNorm == NormMode \/ NormTransform \/ NormFallback \/ NormPlain

SpecNorm == InitNorm /\ [][NextNorm]_vars

File(ok, mode, profile, trns, alpha, dpi, w, h, seed) ==
    [present |-> TRUE, ok |-> ok, mode |-> mode, profile |-> profile, trns |-> trns, alpha |-> alpha,
     dpi |-> dpi, w |-> w, h |-> h, seed |-> seed]

\* request.files has no such field
NoFile == [present |-> FALSE]

Broken == File(FALSE, "RGB", "none", "none", "none", 0, 1, 1, 0)

TemplateFiles ==
    { File(TRUE, "RGBA", "none", "none", "mixed", 0, 600, 1600, 1),
      File(TRUE, "RGB", "good", "none", "none", 72, 400, 1000, 2),
      File(TRUE, "P", "bad", "color", "none", 72, 600, 1600, 3),
      Broken }

PhotoFiles ==
    { File(TRUE, "RGB", "none", "none", "none", 72, 100, 100, 1),
      File(TRUE, "RGB", "good", "none", "none", 0, 1060, 710, 2),
      File(TRUE, "RGBA", "bad", "none", "mixed", 300, 640, 480, 3),
      Broken }

NSlots == Len(SLOTS)

SlotPoints(s) ==
    { <<s[1], s[2]>>, <<s[1] + s[3] - 1, s[2] + s[4] - 1>>,
      <<s[1] + s[3] \div 2, s[2] + s[4] \div 2>>,
      <<s[1] - 1, s[2]>>, <<s[1], s[2] - 1>>,
      <<s[1] + s[3], s[2] + s[4] - 1>>, <<s[1] + s[3] - 1, s[2] + s[4]>> }

SamplePoints == UNION {SlotPoints(SLOTS[k]) : k \in 1..NSlots} \cup {<<0, 0>>}

\* the pixel of a decoded raster at (x, y)
SourcePixel(img, x, y) ==
    [v |-> (img.seed * 50 + x + 2 * y) % 256,
     a |-> IF img.alpha = "mixed" THEN (IF (x + y) % 2 = 0 THEN 255 ELSE 64) ELSE 255]

\* the pixel at (i, j) of the raster the fitter returns for img: resampled content inside
\* the resized raster, and the crop's padding (all zero) outside it
FittedPixel(img, fitted, i, j) ==
    IF /\ fitted.box[1] + i >= 0 /\ fitted.box[1] + i < fitted.resized[1]
       /\ fitted.box[2] + j >= 0 /\ fitted.box[2] + j < fitted.resized[2]
    THEN [v |-> (img.seed * 40 + 7 * i + 3 * j) % 256,
          a |-> IF img.alpha = "mixed"
                THEN (CASE (i + j) % 3 = 0 -> 0 [] (i + j) % 3 = 1 -> 128 [] OTHER -> 255)
                ELSE 255]
    ELSE [v |-> 0, a |-> 0]

\* Pillow's MULDIV255 and BLEND8
MulDiv255(a, b) == ((a * b + 128) \div 256 + a * b + 128) \div 256
Blend(mask, in1, in2) == MulDiv255(in1, 255 - mask) + MulDiv255(in2, mask)

\* the modes Image.paste takes as a mask
MaskModes == {"1", "L", "LA", "RGBA", "RGBa"}

\* p lies in the paste box: the raster's size at (x, y)
InBox(p, x, y, w, h) == p[1] >= x /\ p[1] < x + w /\ p[2] >= y /\ p[2] < y + h

\* template.paste(img, (x, y), img): inside the box and the template, each band is blended
\* with img's alpha as the weight; an RGB template has no alpha band to blend
Paste(pixels, mode, slot, img, fitted) ==
    [p \in DOMAIN pixels |->
        IF InBox(p, slot[1], slot[2], fitted.size[1], fitted.size[2])
        THEN [v |-> Blend(FittedPixel(img, fitted, p[1] - slot[1], p[2] - slot[2]).a,
                          pixels[p].v,
                          FittedPixel(img, fitted, p[1] - slot[1], p[2] - slot[2]).v),
              a |-> IF mode = "RGBA"
                    THEN Blend(FittedPixel(img, fitted, p[1] - slot[1], p[2] - slot[2]).a,
                               pixels[p].a,
                               FittedPixel(img, fitted, p[1] - slot[1], p[2] - slot[2]).a)
                    ELSE 255]
        ELSE pixels[p]]

\* PngImagePlugin writes the dpi as pixels per metre: int(dpi / 0.0254 + 0.5)
PngPhys(dpi) == (dpi * 10000 + 127) \div 254

\* the dpi of the template's info, had save been left to take it from there
SaveDpiFromInfo(template) == <<template.dpi, template.dpi>>

\* line 175: the dpi given to template.save
SaveDpi(template) == <<300, 300>>

NoResponse == [kind |-> "none"]
ErrorResponse(status, why) == [kind |-> "error", status |-> status, why |-> why]

\* a loop that caught the exception of slot k and went on to the next slot
Swallow(g, k, why) == [g EXCEPT !.idx = k + 1, !.failedAt = k]

\* an exception raised in generate is caught nowhere in it: the request ends in a 500
Raise(g, k, why) ==
    [g EXCEPT !.pc = "done", !.failedAt = k, !.response = ErrorResponse(500, why)]

InitGen ==
    /\ gen \in [pc : {"recv"}, template_file : TemplateFiles \cup {NoFile},
                photo_files : [1..NSlots -> PhotoFiles \cup {NoFile}],
                template : {NoFile}, pixels : {<< >>}, normalized : {<< >>},
                img : {[k \in 1..NSlots |-> NoFile]},
                idx : {0}, pasted : {{}}, failedAt : {-1}, work : {{}},
                response : {NoResponse}]
    /\ fit = Idle /\ norm = Idle /\ sav = << >> /\ clock = 0 /\ fs = << >>

GenIdle == UNCHANGED <<fit, norm, sav, clock, fs>>

\* lines 140-141
GenReject ==
    /\ gen.pc = "recv" /\ ~gen.template_file.present
    /\ gen' = [gen EXCEPT !.pc = "done",
                          !.response = ErrorResponse(400, "No template uploaded")]
    /\ GenIdle

\* the normalised template and its pixels at the sample points
OpenedTemplate(g, t) ==
    [g EXCEPT !.pc = "loop", !.idx = 1, !.work = {"decode", "normalize"},
              !.template = [t EXCEPT !.dpi = IF t.dpi = 0 THEN 300 ELSE t.dpi],
              !.pixels = [p \in {q \in SamplePoints : q[1] < t.w /\ q[2] < t.h} |->
                            [v |-> SourcePixel(t, p[1], p[2]).v,
                             a |-> IF t.alpha = "none" THEN 255
                                   ELSE SourcePixel(t, p[1], p[2]).a]],
              !.normalized = [p \in {q \in SamplePoints : q[1] < t.w /\ q[2] < t.h} |->
                            [v |-> SourcePixel(t, p[1], p[2]).v,
                             a |-> IF t.alpha = "none" THEN 255
                                   ELSE SourcePixel(t, p[1], p[2]).a]]]

\* lines 143-152
GenOpenTemplate ==
    /\ gen.pc = "recv" /\ gen.template_file.present
    /\ gen' = IF gen.template_file.ok
              THEN OpenedTemplate(gen, convert_to_srgb(gen.template_file))
              ELSE Raise(gen, 0, "cannot identify image file")
    /\ GenIdle

\* line 155: no photo for this slot
GenSkipSlot ==
    /\ gen.pc = "loop" /\ gen.idx <= NSlots /\ ~gen.photo_files[gen.idx].present
    /\ gen' = [gen EXCEPT !.idx = gen.idx + 1]
    /\ GenIdle

\* line 165, img fitted
Pasted(g, k, img, fitted) ==
    IF ~fitted.ok THEN Raise(g, k, "height and width must be > 0")
    ELSE IF img.mode \notin MaskModes THEN Raise(g, k, "bad transparency mask")
    ELSE [g EXCEPT !.idx = k + 1, !.pasted = g.pasted \cup {k},
                   !.work = g.work \cup {"paste"},
                   !.pixels = Paste(g.pixels, g.template.mode, SLOTS[k], img, fitted)]

\* img of line 162: the normalised photo with what the fitter made of it
FittedRaster(img, fitted) == [img EXCEPT !.ok = fitted.ok] @@ [fitted |-> fitted]

\* lines 162-165, img normalised
FittedAndPasted(g, k, img, fitted) ==
    Pasted([g EXCEPT !.work = g.work \cup {"decode", "normalize", "fit"},
                     !.img[k] = FittedRaster(img, fitted)], k, img, fitted)

\* lines 159-165, the photo decoded
Fitted(g, k, img) ==
    FittedAndPasted(g, k, img,
                    fit_image_to_slot(img.w, img.h, img.dpi, SLOTS[k][3], SLOTS[k][4],
                                      FALSE, TRUE, 300))

\* lines 156-165
GenComposeSlot ==
    /\ gen.pc = "loop" /\ gen.idx <= NSlots /\ gen.photo_files[gen.idx].present
    /\ gen' = IF gen.photo_files[gen.idx].ok
              THEN Fitted(gen, gen.idx, convert_to_srgb(gen.photo_files[gen.idx]))
              ELSE Raise(gen, gen.idx, "cannot identify image file")
    /\ GenIdle

\* lines 168-179
GenSave ==
    /\ gen.pc = "loop" /\ gen.idx > NSlots
    /\ gen' = [gen EXCEPT !.pc = "done", !.work = gen.work \cup {"encode"},
                          !.response = [kind |-> "image", status |-> 200,
                                        size |-> <<gen.template.w, gen.template.h>>,
                                        dpi |-> SaveDpi(gen.template),
                                        phys |-> <<PngPhys(SaveDpi(gen.template)[1]),
                                                   PngPhys(SaveDpi(gen.template)[2])>>,
                                        pixels |-> gen.pixels]]
    /\ GenIdle

NextGen == GenReject \/ GenOpenTemplate \/ GenSkipSlot \/ GenComposeSlot \/ GenSave

SpecGen == InitGen /\ [][NextGen]_vars

(***************************************************************************)
(* /save_locally.  Form values are strings, here sequences of characters.  *)
(* The clock ticks SubSecond times a second and strftime("%Y%m%d_%H%M%S")  *)
(* keeps the second.  A raster is followed by its columns.                 *)
(***************************************************************************)
SubSecond == 2
MaxClock == 3

Space == " "
Digits == {"0", "2", "3", "7"}
DigitValue(c) == CASE c = "0" -> 0 [] c = "2" -> 2 [] c = "3" -> 3 [] c = "7" -> 7

RECURSIVE StripLeft(_)
StripLeft(str) ==
    IF str # << >> /\ Head(str) = Space THEN StripLeft(Tail(str)) ELSE str

RECURSIVE StripRight(_)
StripRight(str) ==
    IF str # << >> /\ str[Len(str)] = Space
    THEN StripRight(SubSeq(str, 1, Len(str) - 1)) ELSE str

\* str.strip()
Strip(str) == StripRight(StripLeft(str))

\* the digits of a literal: digits, with single underscores between them
IsDigits(d) ==
    /\ d # << >> /\ d[1] \in Digits /\ d[Len(d)] \in Digits
    /\ \A i \in 1..Len(d) : d[i] \in Digits \cup {"_"}
    /\ \A i \in 1..(Len(d) - 1) : ~(d[i] = "_" /\ d[i + 1] = "_")

RECURSIVE DigitsValue(_, _)
DigitsValue(d, acc) ==
    IF d = << >> THEN acc
    ELSE DigitsValue(Tail(d), IF Head(d) = "_" THEN acc ELSE 10 * acc + DigitValue(Head(d)))

Unsigned(d) == IF IsDigits(d) THEN [ok |-> TRUE, value |-> DigitsValue(d, 0)]
               ELSE [ok |-> FALSE]

Negated(r) == IF r.ok THEN [ok |-> TRUE, value |-> -r.value] ELSE r

Signed(str) ==
    IF str # << >> /\ Head(str) = "-" THEN Negated(Unsigned(Tail(str)))
    ELSE IF str # << >> /\ Head(str) = "+" THEN Unsigned(Tail(str))
    ELSE Unsigned(str)

\* int(str): ok is FALSE where Python raises ValueError
ParseInt(str) == Signed(Strip(str))

\* line 196, without the lower limit
ClampHigh(n) == Min(5, n)

\* line 196
Clamp(n) == Max(1, Min(5, n))

Clamped(r) == IF r.ok THEN Clamp(r.value) ELSE 2

\* lines 193-198; field is NoFile when the form has no copyCount
CopyCount(field) == Clamped(ParseInt(IF field.present THEN field.value ELSE <<"2">>))

Field(str) == [present |-> TRUE, value |-> str]

\* line 205
Timestamp(t) == t \div SubSecond

Columns(img) == [c \in 1..img.w |-> (img.seed * 50 + c) % 256]

\* multi_img.paste(img, (x, 0))
PasteAt(multi, cols, x) ==
    [c \in 1..Len(multi) |-> IF c > x /\ c <= x + Len(cols) THEN cols[c - x] ELSE multi[c]]

\* lines 216-217
RECURSIVE Tiled(_, _, _, _)
Tiled(multi, cols, i, copy_count) ==
    IF i >= copy_count THEN multi
    ELSE Tiled(PasteAt(multi, cols, Len(cols) * i), cols, i + 1, copy_count)

\* lines 211-217
MultiImage(img, copy_count) ==
    [mode |-> img.mode, size |-> <<img.w * copy_count, img.h>>,
     cols |-> Tiled([c \in 1..(img.w * copy_count) |-> 0], Columns(img), 0, copy_count)]

\* lines 220-243: the directory and the name of the file, by their parts
FilePath(tag_name, timestamp, copy_count) ==
    [present |-> TRUE, dir |-> tag_name,
     prefix |-> IF tag_name # << >> THEN tag_name ELSE <<"f", "r", "a", "m", "e">>,
     stamp  |-> timestamp,
     copies |-> IF copy_count > 1 THEN copy_count ELSE 0]

Chars == {"0", "2", "3", "7", "-", "+", "_", Space, "x"}
MaxCopyLen == 2
Strings(n) == UNION {[1..k -> Chars] : k \in 0..n}

SaveFiles ==
    { File(TRUE, "RGB", "none", "none", "none", 72, 20, 10, 1),
      File(TRUE, "L", "good", "none", "none", 0, 3, 2, 2),
      Broken, NoFile }

SaveRequest(files, tags, counts) ==
    [pc : {"recv"}, file : files, tagName : tags, copyCount : counts,
     tag_name : {<< >>}, copy_count : {0}, timestamp : {0}, multi : {NoFile},
     path : {NoFile}, response : {NoResponse}]

\* one request, over all the form values
InitSave ==
    /\ sav \in [{1} -> SaveRequest(SaveFiles, {<< >>, <<Space, "a">>},
                                   {Field(str) : str \in Strings(MaxCopyLen)} \cup {NoFile})]
    /\ clock = 0 /\ fs = << >>
    /\ fit = Idle /\ norm = Idle /\ gen = Idle

\* two requests in flight
InitSaveBoth ==
    /\ sav \in [{1, 2} -> SaveRequest({File(TRUE, "RGB", "none", "none", "none", 72, 3, 2, 1),
                                       File(TRUE, "RGBA", "none", "none", "opaque", 72, 2, 2, 2)},
                                      {<< >>, <<"a">>}, {Field(<<"3">>), NoFile})]
    /\ clock = 0 /\ fs = << >>
    /\ fit = Idle /\ norm = Idle /\ gen = Idle

SaveIdle == UNCHANGED <<fit, norm, gen>>

Tick ==
    /\ clock < MaxClock
    /\ clock' = clock + 1
    /\ UNCHANGED <<sav, fs>> /\ SaveIdle

\* lines 184-198
SaveRecv(r) ==
    /\ sav[r].pc = "recv"
    /\ sav' = [sav EXCEPT ![r] =
                 IF ~sav[r].file.present
                 THEN [@ EXCEPT !.pc = "done",
                                !.response = ErrorResponse(400, "No file uploaded")]
                 ELSE [@ EXCEPT !.pc = "stamp", !.tag_name = Strip(sav[r].tagName),
                                !.copy_count = CopyCount(sav[r].copyCount)]]
    /\ UNCHANGED <<clock, fs>> /\ SaveIdle

\* lines 201-205
SaveStamp(r) ==
    /\ sav[r].pc = "stamp"
    /\ sav' = [sav EXCEPT ![r].pc = "tile", ![r].timestamp = Timestamp(clock)]
    /\ UNCHANGED <<clock, fs>> /\ SaveIdle

\* lines 208-217
SaveTile(r) ==
    /\ sav[r].pc = "tile"
    /\ sav' = [sav EXCEPT ![r] =
                 IF sav[r].file.ok
                 THEN [@ EXCEPT !.pc = "write",
                                !.multi = MultiImage(convert_to_srgb(sav[r].file),
                                                     sav[r].copy_count)]
                 ELSE [@ EXCEPT !.pc = "done",
                                !.response = ErrorResponse(500, "cannot identify image file")]]
    /\ UNCHANGED <<clock, fs>> /\ SaveIdle

\* multi_img.save(multi_filepath): the file at the path is created or replaced
Written(files, path, file) ==
    [q \in DOMAIN files \cup {path} |-> IF q = path THEN file ELSE files[q]]

\* lines 220-249
SaveWrite(r) ==
    /\ sav[r].pc = "write"
    /\ sav' = [sav EXCEPT ![r].pc = "respond",
                          ![r].path = FilePath(sav[r].tag_name, sav[r].timestamp,
                                               sav[r].copy_count)]
    /\ fs' = Written(fs, FilePath(sav[r].tag_name, sav[r].timestamp, sav[r].copy_count),
                     [by |-> r, image |-> sav[r].multi])
    /\ UNCHANGED clock /\ SaveIdle

\* lines 251-263
SaveRespond(r) ==
    /\ sav[r].pc = "respond"
    /\ sav' = [sav EXCEPT ![r].pc = "done",
                          ![r].response = [kind |-> "json", status |-> 200,
                                           filepath |-> sav[r].path,
                                           copyCount |-> sav[r].copy_count]]
    /\ UNCHANGED <<clock, fs>> /\ SaveIdle

NextSave ==
    \/ Tick
    \/ \E r \in DOMAIN sav : SaveRecv(r)
    \/ \E r \in DOMAIN sav : SaveStamp(r)
    \/ \E r \in DOMAIN sav : SaveTile(r)
    \/ \E r \in DOMAIN sav : SaveWrite(r)
    \/ \E r \in DOMAIN sav : SaveRespond(r)

SpecSave == InitSave /\ [][NextSave]_vars

SpecSaveBoth == InitSaveBoth /\ [][NextSave]_vars

\* the copies asked for, read off the form value
Asked(field, str, n) == field.present /\ field.value = str => n

\* C9: the number of copies N is copyCount clamped into 1..5 when it parses as an integer
\* and 2 when it is absent or does not parse; the file written is N x width wide, as
\* high as the source, and holds N copies of it side by side; the response reports N.
C9_CopiesClampedAndTiled ==
    \A r \in DOMAIN sav :
        sav[r].pc \in {"respond", "done"} /\ sav[r].path.present =>
            /\ sav[r].copy_count \in 1..5
            /\ ~sav[r].copyCount.present => sav[r].copy_count = 2
            /\ sav[r].copyCount.present =>
                  /\ ~ParseInt(sav[r].copyCount.value).ok => sav[r].copy_count = 2
                  /\ ParseInt(sav[r].copyCount.value).ok =>
                        LET n == ParseInt(sav[r].copyCount.value).value
                        IN  sav[r].copy_count = IF n < 1 THEN 1 ELSE IF n > 5 THEN 5 ELSE n
            /\ Asked(sav[r].copyCount, <<"7">>, sav[r].copy_count = 5)
            /\ Asked(sav[r].copyCount, <<"0">>, sav[r].copy_count = 1)
            /\ Asked(sav[r].copyCount, <<"-", "3">>, sav[r].copy_count = 1)
            /\ Asked(sav[r].copyCount, <<"3">>, sav[r].copy_count = 3)
            /\ Asked(sav[r].copyCount, <<"x">>, sav[r].copy_count = 2)
            /\ Asked(sav[r].copyCount, << >>, sav[r].copy_count = 2)
            /\ fs[sav[r].path].image.size =
                  <<sav[r].copy_count * sav[r].file.w, sav[r].file.h>>
            /\ Len(fs[sav[r].path].image.cols) = sav[r].copy_count * sav[r].file.w
            /\ \A c \in 1..(sav[r].copy_count * sav[r].file.w) :
                  fs[sav[r].path].image.cols[c] =
                      Columns(sav[r].file)[((c - 1) % sav[r].file.w) + 1]
            /\ sav[r].pc = "done" => sav[r].response.copyCount = sav[r].copy_count

\* copyCount=3 on the 20 x 10 source: the file is 60 x 10 and the response says 3
C9_Witness ==
    /\ sav[1].pc = "done" /\ sav[1].copyCount = Field(<<"3">>)
    /\ sav[1].response.kind = "json" /\ sav[1].response.copyCount = 3
    /\ fs[sav[1].path].image.size = <<60, 10>>

\* C10: two requests in flight never write to the same path.
C10_DistinctPaths ==
    \A r1, r2 \in DOMAIN sav :
        (r1 # r2 /\ sav[r1].path.present /\ sav[r2].path.present) =>
            sav[r1].path # sav[r2].path

(***************************************************************************)
(* The claims about /generate.                                             *)
(***************************************************************************)
\* (x, y) lies in the rectangle of slot k
InSlot(p, k) ==
    /\ p[1] >= SLOTS[k][1] /\ p[1] < SLOTS[k][1] + SLOTS[k][3]
    /\ p[2] >= SLOTS[k][2] /\ p[2] < SLOTS[k][2] + SLOTS[k][4]

\* the fitted raster of slot k exists and is fully opaque: RGBA with alpha 255 everywhere,
\* or RGB with no alpha channel
FullyOpaque(k) ==
    /\ gen.img[k].present /\ gen.img[k].ok
    /\ \/ gen.img[k].mode = "RGB"
       \/ /\ gen.img[k].mode = "RGBA" /\ gen.img[k].alpha = "opaque"
          /\ BoxInside(gen.img[k].fitted.box, gen.img[k].fitted.resized[1],
                       gen.img[k].fitted.resized[2])

C4_OutsideUntouched ==
    gen.pc \in {"loop", "done"} /\ gen.template.present =>
        /\ <<gen.template.w, gen.template.h>> = <<gen.template_file.w, gen.template_file.h>>
        /\ DOMAIN gen.pixels = DOMAIN gen.normalized
        /\ gen.response.kind = "image" =>
              /\ gen.response.size = <<gen.template_file.w, gen.template_file.h>>
              /\ DOMAIN gen.response.pixels = DOMAIN gen.normalized
        /\ \A p \in DOMAIN gen.pixels :
              \/ \E k \in gen.pasted : InSlot(p, k)
              \/ gen.pixels[p] = gen.normalized[p]
        /\ \A k \in 1..NSlots : \A p \in DOMAIN gen.pixels :
              (~gen.photo_files[k].present /\ InSlot(p, k)) =>
                  gen.pixels[p] = gen.normalized[p]

\* slots 1 and 3 got a photo that changed the template, slots 2 and 4 got none
C4_Witness ==
    /\ gen.pc = "done" /\ gen.response.kind = "image" /\ gen.pasted = {1, 3}
    /\ ~gen.photo_files[2].present /\ ~gen.photo_files[4].present
    /\ \E p \in DOMAIN gen.pixels : InSlot(p, 1) /\ gen.pixels[p] # gen.normalized[p]
    /\ \E p \in DOMAIN gen.pixels : InSlot(p, 2)

\* C6: a request without a template, or without any photo, is rejected before any
\* pipeline work and gets no image.
C6_MissingInputRejected ==
    (~gen.template_file.present \/ \A k \in 1..NSlots : ~gen.photo_files[k].present) =>
        /\ gen.work = {}
        /\ gen.pc = "done" => gen.response.kind = "error"

\* C7: the image /generate returns carries 300 x 300 dpi (in the PNG: 11811 pixels per
\* metre), whatever the dpi of the uploads.
C7_OutputDpi300 ==
    gen.response.kind = "image" =>
        /\ gen.response.dpi = <<300, 300>>
        /\ gen.response.phys = <<11811, 11811>>

\* an image came back for a 72 dpi template with a 72 dpi photo in slot 1
C7_Witness ==
    /\ gen.response.kind = "image" /\ gen.template.dpi = 72
    /\ 1 \in gen.pasted /\ gen.photo_files[1].dpi = 72

\* C8: a failure at slot k ends the request in a 500 with no image, whatever was pasted
\* before; an image comes back only when nothing failed and every supplied photo was
\* pasted, a photo whose ICC transform failed included.
C8_NoPartialComposite ==
    /\ gen.failedAt >= 0 =>
          gen.pc = "done" /\ gen.response.kind = "error" /\ gen.response.status = 500
    /\ gen.response.kind = "image" =>
          /\ gen.failedAt = -1
          /\ gen.pasted = {k \in 1..NSlots : gen.photo_files[k].present}
          /\ \A k \in 1..NSlots : gen.photo_files[k].present => gen.photo_files[k].ok

\* slot 3 failed after slots 1 and 2 were pasted, slot 1 with a photo whose transform failed
C8_Witness ==
    /\ gen.pc = "done" /\ gen.failedAt = 3 /\ gen.pasted = {1, 2}
    /\ gen.response.kind = "error" /\ gen.photo_files[1].profile = "bad"

====
